---- MODULE Spec2Model ----
(***************************************************************************)
(* Model of pyacdc_dvm1.py: automated AC-DC difference measurement of      *)
(* thermal converters.  main() is a sequential program; the model follows  *)
(* it call by call (pc names the call about to be made).                   *)
(*                                                                         *)
(* Numbers.  Python/numpy floats are modelled as exact rationals extended  *)
(* with the IEEE special values (+inf, -inf, NaN, -0.0): rounding error,   *)
(* overflow and underflow of binary64 are not modelled, the propagation    *)
(* of non-finite values and every comparison are.  A detector reading is   *)
(* the string the voltmeter returns; it is modelled by an integer count    *)
(* of 50 microvolts and float(a.strip()) by ParseReading.                  *)
(***************************************************************************)
EXTENDS Integers, Sequences, FiniteSets, TLC

VARIABLES
    config,         \* config.ini: voltage (V), repeticoes
    pc,             \* the call main() is about to make
    freqIdx,        \* position of `value` in freq_array (0 before the loop)
    n_array,        \* result of n_measure: [nX, nY, k]
    vac_atual,      \* equilibrium AC voltage
    vdc_atual,      \* DC voltage of the next repetition
    first_measure,  \* flag of line 623
    ciclo_ac,       \* carried-over pair given to the last measure() call
    readings,       \* CycleSet returned by the last measure() call
    i,              \* accepted-count
    diff_acdc,      \* accepted differences
    Delta,          \* accepted discard-criterion values
    inst,           \* instruments: globals bound so far, switch position,
                    \* source outputs
    file,           \* the CSV record: section of the current frequency
    sensorReads,    \* bme280_read() calls in the current frequency point
    calls,          \* history: core calls made for the current frequency point
    lastCall,       \* history: arguments of the last measure()/acdc_calc()
    lastRep,        \* history: outcome of the last completed repetition
    lastTrace,      \* history: instrument commands of the last completed call
    stops,          \* history: [started, completed] stop_instruments() calls
    fault,          \* history: why the except clause was entered
    total,          \* history: repetitions started in the current frequency
    hM              \* argument M of an isolated n_measure(M) call (SpecN)

vars == <<config, pc, freqIdx, n_array, vac_atual, vdc_atual, first_measure,
          ciclo_ac, readings, i, diff_acdc, Delta, inst, file,
          sensorReads, calls, lastCall, lastRep, lastTrace, stops, fault, total, hM>>

(***************************************************************************)
(* Bounds of the model.                                                    *)
(***************************************************************************)
\* largest configured repetition target
MaxRepeticoes == 2
\* cap on the repetitions (accepted or discarded) started per frequency point
MaxTotal == 3
\* number of frequency points in freq_array
MaxFreqs == 2
\* largest M of an isolated n_measure(M) call
MaxM == 5

(***************************************************************************)
(* Floating point values.                                                  *)
(***************************************************************************)
Abs(x) == IF x < 0 THEN -x ELSE x

RECURSIVE Gcd(_, _)
Gcd(a, b) == IF b = 0 THEN a ELSE Gcd(b, a % b)

Lcm(a, b) == (a \div Gcd(a, b)) * b

\* the rational n/d (d # 0) in lowest terms; 0 is +0.0
Rat(n, d) ==
    LET g == Gcd(Abs(n), Abs(d))
        s == IF d < 0 THEN -1 ELSE 1
    IN  [t |-> "fin", n |-> s * (n \div g), d |-> Abs(d) \div g]

Zero == [t |-> "fin", n |-> 0, d |-> 1]
NegZero == [t |-> "nzero", n |-> 0, d |-> 1]
PInf == [t |-> "pinf", n |-> 0, d |-> 1]
NInf == [t |-> "ninf", n |-> 0, d |-> 1]
NaN == [t |-> "nan", n |-> 0, d |-> 1]

IsNaN(x) == x.t = "nan"
IsInf(x) == x.t \in {"pinf", "ninf"}
IsZero(x) == x.t = "nzero" \/ (x.t = "fin" /\ x.n = 0)
IsFinite(x) == x.t \in {"fin", "nzero"}
\* the sign bit
IsNeg(x) == x.t \in {"nzero", "ninf"} \/ (x.t = "fin" /\ x.n < 0)

SignedZero(neg) == IF neg THEN NegZero ELSE Zero
SignedInf(neg) == IF neg THEN NInf ELSE PInf

FNeg(x) ==
    CASE x.t = "nan" -> NaN
      [] x.t = "pinf" -> NInf
      [] x.t = "ninf" -> PInf
      [] x.t = "nzero" -> Zero
      [] OTHER -> IF x.n = 0 THEN NegZero ELSE Rat(-x.n, x.d)

FAbs(x) == IF IsNeg(x) THEN FNeg(x) ELSE x

FAdd(a, b) ==
    CASE IsNaN(a) \/ IsNaN(b) -> NaN
      [] IsInf(a) /\ IsInf(b) -> IF a.t = b.t THEN a ELSE NaN
      [] IsInf(a) -> a
      [] IsInf(b) -> b
      [] IsZero(a) /\ IsZero(b) ->
            IF a.t = "nzero" /\ b.t = "nzero" THEN NegZero ELSE Zero
      [] OTHER ->
            LET l == Lcm(a.d, b.d)
            IN  Rat(a.n * (l \div a.d) + b.n * (l \div b.d), l)

FSub(a, b) == FAdd(a, FNeg(b))

FMul(a, b) ==
    LET neg == IsNeg(a) # IsNeg(b)
    IN  CASE IsNaN(a) \/ IsNaN(b) -> NaN
          [] (IsInf(a) /\ IsZero(b)) \/ (IsZero(a) /\ IsInf(b)) -> NaN
          [] IsInf(a) \/ IsInf(b) -> SignedInf(neg)
          [] IsZero(a) \/ IsZero(b) -> SignedZero(neg)
          [] OTHER ->
                LET g1 == Gcd(Abs(a.n), b.d)
                    g2 == Gcd(Abs(b.n), a.d)
                IN  Rat((a.n \div g1) * (b.n \div g2),
                        (a.d \div g2) * (b.d \div g1))

\* numpy division: x/0 is +-inf, 0/0 is NaN, no exception
FDiv(a, b) ==
    LET neg == IsNeg(a) # IsNeg(b)
    IN  CASE IsNaN(a) \/ IsNaN(b) -> NaN
          [] IsInf(a) /\ IsInf(b) -> NaN
          [] IsZero(a) /\ IsZero(b) -> NaN
          [] IsInf(a) -> SignedInf(neg)
          [] IsInf(b) -> SignedZero(neg)
          [] IsZero(b) -> SignedInf(neg)
          [] IsZero(a) -> SignedZero(neg)
          [] OTHER -> FMul(a, Rat(b.d, b.n))

\* a > b; every comparison with NaN is false
FGt(a, b) ==
    CASE IsNaN(a) \/ IsNaN(b) -> FALSE
      [] a.t = "pinf" -> b.t # "pinf"
      [] a.t = "ninf" -> FALSE
      [] b.t = "pinf" -> FALSE
      [] b.t = "ninf" -> TRUE
      [] OTHER ->
            LET l == Lcm(a.d, b.d)
            IN  a.n * (l \div a.d) > b.n * (l \div b.d)

FLt(a, b) == FGt(b, a)
FGe(a, b) == ~IsNaN(a) /\ ~IsNaN(b) /\ ~FGt(b, a)
FLe(a, b) == FGe(b, a)
\* a == b as floats (NaN differs from itself, -0.0 equals 0.0)
FEq(a, b) == FGe(a, b) /\ FGe(b, a)

RECURSIVE FSum(_)
FSum(s) == IF Len(s) = 1 THEN s[1] ELSE FAdd(FSum(SubSeq(s, 1, Len(s) - 1)), s[Len(s)])

\* numpy.mean: NaN for an empty array
FMean(s) == IF Len(s) = 0 THEN NaN ELSE FDiv(FSum(s), Rat(Len(s), 1))

\* "{:.3f}".format(x): x rounded half-even to three decimals
Fmt3(x) ==
    IF ~IsFinite(x) \/ x.t = "nzero" THEN x
    ELSE LET a == Abs(x.n)
             q == a \div x.d
             r1 == (a % x.d) * 10
             r2 == (r1 % x.d) * 10
             r3 == (r2 % x.d) * 10
             m == q * 1000 + (r1 \div x.d) * 100 + (r2 \div x.d) * 10 + (r3 \div x.d)
             rest == r3 % x.d
             up == 2 * rest > x.d \/ (2 * rest = x.d /\ m % 2 = 1)
             mm == IF up THEN m + 1 ELSE m
         IN  IF mm = 0 THEN SignedZero(x.n < 0)
             ELSE Rat(IF x.n < 0 THEN -mm ELSE mm, 1000)

One == Rat(1, 1)
Million == Rat(1000000, 1)

(***************************************************************************)
(* Configuration (lines 69-80) and the readings the detector may return.   *)
(***************************************************************************)
\* wait_time of config.ini, seconds (an even integer other than 2)
WaitTime == 4
\* aquecimento of config.ini, seconds
HeatingTime == 30

\* config.ini voltage values explored; float() accepts a negative one
Voltages == {1, -1}

vdc_nominal == Rat(config.voltage, 1)
vac_nominal == Rat(config.voltage, 1)
repeticoes == config.repeticoes
\* freq_array: MaxFreqs entries, in MHz
freq_array == [j \in 1..MaxFreqs |-> j]
\* freq = float(value) * 1000000
Freq(j) == Rat(freq_array[j] * 1000000, 1)

\* float(a.strip()) of a reading of c counts of 50 microvolts
ParseReading(c) == Rat(c * 50, 1000000)

\* all sequences s with s[j] \in doms[j]
RECURSIVE Prod(_)
Prod(doms) ==
    IF Len(doms) = 0 THEN {<<>>}
    ELSE {Append(s, x) : s \in Prod(SubSeq(doms, 1, Len(doms) - 1)),
                         x \in doms[Len(doms)]}

\* the DC level of step j of n_measure (0: the baseline)
NLevel(j) == IF j = 0 THEN "nominal" ELSE IF j % 2 = 0 THEN "minus" ELSE "plus"
\* readings of the standard and of the device during n_measure, by DC level;
\* the device may read 0 at the nominal level (no output from the converter)
NStd(level) == IF level = "plus" THEN {26} ELSE {25}
NDut(level) ==
    IF level = "plus" THEN {25, 26} ELSE IF level = "nominal" THEN {25, 0} ELSE {25}
\* device readings of the three steps of equilibrio()
EqDut(step) == IF step = 1 THEN {25, 27} ELSE IF step = 2 THEN {24, 25} ELSE {26}
\* readings of one phase of measure() (phases 1..5; odd phases are AC)
CycleStd(phase) == {20}
CycleDut(phase) == IF phase % 2 = 1 THEN {19, 22} ELSE {20}
\* readings of an isolated n_measure(M) call
HDut == {24, 25, 26}

(***************************************************************************)
(* Instrument commands.  A call is described by the sequence of commands   *)
(* it issues; a reading is the value the detector returned.                *)
(***************************************************************************)
Ev(op, a, v, c) == [op |-> op, a |-> a, v |-> v, c |-> c]
Open(name) == Ev("open", name, Zero, 0)
Src(cmd) == Ev("src", cmd, Zero, 0)
SrcSet(cmd, v) == Ev("src", cmd, v, 0)
Dvm(cmd) == Ev("dvm", cmd, Zero, 0)
Route(mode) == Ev("sw", mode, Zero, 0)
Espera(s) == Ev("espera", "s", Zero, s)
\* ler_std() / ler_dut(): channel select, range, single shot, :READ?
Ler(ch, c) == Ev("read", ch, Zero, c)

\* "SOURn:VOLT {:.3f} VRMS".format(v)
Volt(ch, v) == SrcSet(ch, Fmt3(v))

\* the effect of one command on the instruments
Apply(st, e) ==
    CASE e.op = "open" -> [st EXCEPT !.handles = @ \cup {e.a}]
      [] e.op = "sw" -> [st EXCEPT !.sw = e.a]
      [] e.op = "src" /\ e.a = "*RST" -> [st EXCEPT !.out1 = FALSE, !.out2 = FALSE]
      [] e.op = "src" /\ e.a = "OUTP1 ON" -> [st EXCEPT !.out1 = TRUE]
      [] e.op = "src" /\ e.a = "OUTP2 ON" -> [st EXCEPT !.out2 = TRUE]
      [] e.op = "src" /\ e.a = "OUTP1 OFF" -> [st EXCEPT !.out1 = FALSE]
      [] e.op = "src" /\ e.a = "OUTP2 OFF" -> [st EXCEPT !.out2 = FALSE]
      [] OTHER -> st

RECURSIVE ApplyAll(_, _)
ApplyAll(st, tr) ==
    IF Len(tr) = 0 THEN st ELSE ApplyAll(Apply(st, tr[1]), Tail(tr))

\* the instrument states reached before command j of tr and later ones
RECURSIVE Before(_, _, _)
Before(st, tr, j) ==
    IF j > Len(tr) THEN {} ELSE {st} \cup Before(Apply(st, tr[j]), tr, j + 1)

\* the instrument states a call leaves behind when one of its commands (or
\* waits) raises: those after a proper prefix of its commands
Interrupted(st, tr) == Before(st, tr, 1)

\* instrument_init(), lines 116-139
InstrumentInitTrace ==
    <<Open("ac_source"), Src("*IDN?"), Open("dvm"), Dvm(":SENS:VOLT:NPLC 18"),
      Dvm(":SENS:VOLT:DIG 8"), Open("sw"), Route("reset")>>

\* meas_init(), lines 150-171
MeasInitTrace ==
    <<Src("*RST"), Src("*CLS"), Src("OUTP1:LOAD"), Src("OUTP2:LOAD"),
      Src("SOUR1:FUNC SIN"), Src("SOUR2:FUNC SIN"),
      Volt("SOUR1:VOLT", vdc_nominal), Volt("SOUR2:VOLT", vac_nominal),
      SrcSet("SOUR1:FREQ", Rat(100000, 1)), SrcSet("SOUR2:FREQ", Rat(1000000, 1)),
      Espera(2), Src("OUTP1 ON"), Src("OUTP2 ON"), Espera(10), Route("ac"),
      Espera(10)>>

\* aquecimento(tempo), lines 209-216
AquecimentoTrace(tempo) ==
    <<Volt("SOUR1:VOLT", vdc_nominal), SrcSet("SOUR1:FREQ", Rat(100000, 1)),
      Route("dc"), Espera(tempo)>>

\* stop_instruments(), lines 487-494
StopTrace == <<Route("reset"), Espera(1), Src("OUTP1 OFF"), Src("OUTP2 OFF")>>

(***************************************************************************)
(* n_measure(M), lines 226-305                                             *)
(***************************************************************************)
\* variant: the argument taken as it is
NPairsSemArredondar(M) == M
\* lines 228-229: M made even
NPairs(M) == IF M % 2 # 0 THEN M + 1 ELSE M

\* lines 260-265
NWeight(j) == IF j % 2 = 0 THEN -100 ELSE 100
\* variant: the two levels exchanged
NVoltageTrocado(j) ==
    IF j % 2 = 0 THEN FMul(Rat(101, 100), vdc_nominal)
    ELSE FMul(Rat(99, 100), vdc_nominal)
\* lines 260-265: Vi
NVoltage(j) ==
    IF j % 2 = 0 THEN FMul(Rat(99, 100), vdc_nominal)
    ELSE FMul(Rat(101, 100), vdc_nominal)

\* lines 267-282: one pass of the loop
NStep(j, x, y) ==
    <<Route("ac"), Espera(2), Volt("SOUR1:VOLT", NVoltage(j)), Espera(2),
      Route("dc"), Espera(WaitTime), Ler("std", x), Ler("dut", y)>>

RECURSIVE NLoop(_, _, _, _)
NLoop(j, m, xs, ys) ==
    IF j > m THEN <<>>
    ELSE NStep(j, xs[j + 1], ys[j + 1]) \o NLoop(j + 1, m, xs, ys)

\* xs, ys: the readings of the standard and of the device, baseline first
NMeasureTrace(M, f, xs, ys) ==
    <<Volt("SOUR2:VOLT", vac_nominal), SrcSet("SOUR2:FREQ", f),
      Volt("SOUR1:VOLT", vdc_nominal), Espera(2), Route("dc"),
      Espera(WaitTime), Ler("std", xs[1]), Ler("dut", ys[1])>>
    \o NLoop(1, NPairs(M), xs, ys)
    \o <<Route("ac")>>

\* lines 298-299: (Xi/X0 - 1) * k
NDeviations(rs, m) ==
    [j \in 1..m |->
        FMul(FSub(FDiv(ParseReading(rs[j + 1]), ParseReading(rs[1])), One),
             Rat(NWeight(j), 1))]

\* lines 287-305: the dictionary returned (the standard deviations, which
\* are only printed and recorded, are left out)
NMeasureResult(M, xs, ys) ==
    LET m == NPairs(M)
    IN  [nX |-> FMean(NDeviations(xs, m)),
         nY |-> FMean(NDeviations(ys, m)),
         k |-> [j \in 1..m |-> NWeight(j)]]

\* the readings n_measure(M) may see in main()
NInputs(M) ==
    LET m == NPairs(M)
    IN  Prod([j \in 1..(m + 1) |-> NStd(NLevel(j - 1))])
        \X Prod([j \in 1..(m + 1) |-> NDut(NLevel(j - 1))])

(***************************************************************************)
(* equilibrio(), lines 438-481                                             *)
(***************************************************************************)
\* variant: the first reading taken before the AC amplitude is changed
EquilibrioTraceAntes(f, ys) ==
    <<SrcSet("SOUR2:FREQ", f), Volt("SOUR1:VOLT", vdc_nominal), Espera(5),
      Route("dc"), Espera(WaitTime \div 2),
      Espera(WaitTime \div 2), Ler("dut", ys[1]),
      Volt("SOUR2:VOLT", FMul(Rat(999, 1000), vac_nominal)),
      Route("ac"), Espera(WaitTime), Ler("dut", ys[2]),
      Route("dc"), Espera(2),
      Volt("SOUR2:VOLT", FMul(Rat(1001, 1000), vac_nominal)), Espera(2),
      Route("ac"), Espera(WaitTime), Ler("dut", ys[3]),
      Route("dc")>>

\* lines 440-473: the commands of equilibrio()
EquilibrioTrace(f, ys) ==
    <<SrcSet("SOUR2:FREQ", f), Volt("SOUR1:VOLT", vdc_nominal), Espera(5),
      Route("dc"), Espera(WaitTime \div 2),
      Volt("SOUR2:VOLT", FMul(Rat(999, 1000), vac_nominal)),
      Espera(WaitTime \div 2), Ler("dut", ys[1]),
      Route("ac"), Espera(WaitTime), Ler("dut", ys[2]),
      Route("dc"), Espera(2),
      Volt("SOUR2:VOLT", FMul(Rat(1001, 1000), vac_nominal)), Espera(2),
      Route("ac"), Espera(WaitTime), Ler("dut", ys[3]),
      Route("dc")>>

\* variant: the straight line through the two points, followed everywhere
InterpExtrapola(x, xp, fp) ==
    LET slope == FDiv(FSub(fp[2], fp[1]), FSub(xp[2], xp[1]))
    IN  FAdd(FMul(slope, FSub(x, xp[1])), fp[1])

\* numpy.interp(x, xp, fp) for two sample points: the value is held at
\* fp[1] below xp[1] and at fp[2] above xp[2] (no extrapolation); the
\* interval is located by comparisons only, xp is not checked to increase
Interp(x, xp, fp) ==
    CASE IsNaN(x) -> x
      [] FGt(x, xp[2]) -> fp[2]
      [] FLt(x, xp[1]) -> fp[1]
      [] FGe(x, xp[2]) -> fp[2]
      [] FEq(xp[1], x) -> fp[1]
      [] OTHER ->
            LET slope == FDiv(FSub(fp[2], fp[1]), FSub(xp[2], xp[1]))
            IN  FAdd(FMul(slope, FSub(x, xp[1])), fp[1])

\* variant: the straight line followed outside the sample points
EquilibrioResultSemLimite(ys) ==
    LET yp == <<FMul(Rat(999, 1000), vac_nominal), FMul(Rat(1001, 1000), vac_nominal)>>
        xp == <<ParseReading(ys[2]), ParseReading(ys[3])>>
        xi == ParseReading(ys[1])
    IN  InterpExtrapola(xi, xp, yp)

\* lines 474-481
EquilibrioResult(ys) ==
    LET yp == <<FMul(Rat(999, 1000), vac_nominal), FMul(Rat(1001, 1000), vac_nominal)>>
        xp == <<ParseReading(ys[2]), ParseReading(ys[3])>>
        xi == ParseReading(ys[1])
    IN  Interp(xi, xp, yp)

EqInputs == Prod([j \in 1..3 |-> EqDut(j)])

(***************************************************************************)
(* measure(vdc_atual, vac_atual, ciclo_ac), lines 316-397                  *)
(***************************************************************************)
\* variant: half the settling wait
PhaseMeiaEspera(mode, x, y) ==
    <<Route(mode), Espera(WaitTime \div 2), Ler("std", x), Ler("dut", y)>>

\* one freshly sampled phase: route, settle, read both channels
Phase(mode, x, y) ==
    <<Route(mode), Espera(WaitTime), Ler("std", x), Ler("dut", y)>>

\* variant: phase 0 sampled whether or not a pair was carried over
MeasureTraceSempre(vdc, vac, f, ciclo, xs, ys) ==
    LET o == IF ciclo = <<>> THEN 1 ELSE 0
    IN  <<Volt("SOUR2:VOLT", vac), SrcSet("SOUR2:FREQ", f),
          Volt("SOUR1:VOLT", vdc), SrcSet("SOUR1:FREQ", Rat(100000, 1)),
          Espera(2)>>
        \o Phase("ac", xs[1], ys[1])
        \o Phase("dc", xs[o + 1], ys[o + 1])
        \o Phase("ac", xs[o + 2], ys[o + 2])
        \o Phase("dc", xs[o + 3], ys[o + 3])
        \o Phase("ac", xs[o + 4], ys[o + 4])

\* variant: the DC source set again, reversed, before the second DC phase
MeasureTraceReversao(vdc, vac, f, ciclo, xs, ys) ==
    LET o == IF ciclo = <<>> THEN 1 ELSE 0
    IN  <<Volt("SOUR2:VOLT", vac), SrcSet("SOUR2:FREQ", f),
          Volt("SOUR1:VOLT", vdc), SrcSet("SOUR1:FREQ", Rat(100000, 1)),
          Espera(2)>>
        \o (IF ciclo = <<>> THEN Phase("ac", xs[1], ys[1]) ELSE <<>>)
        \o Phase("dc", xs[o + 1], ys[o + 1])
        \o Phase("ac", xs[o + 2], ys[o + 2])
        \o <<Volt("SOUR1:VOLT", FNeg(vdc))>>
        \o Phase("dc", xs[o + 3], ys[o + 3])
        \o Phase("ac", xs[o + 4], ys[o + 4])

\* xs, ys: the readings taken, in order (5 pairs, 4 with a carried-over pair)
MeasureTrace(vdc, vac, f, ciclo, xs, ys) ==
    LET o == IF ciclo = <<>> THEN 1 ELSE 0
    IN  <<Volt("SOUR2:VOLT", vac), SrcSet("SOUR2:FREQ", f),
          Volt("SOUR1:VOLT", vdc), SrcSet("SOUR1:FREQ", Rat(100000, 1)),
          Espera(2)>>
        \o (IF ciclo = <<>> THEN Phase("ac", xs[1], ys[1]) ELSE <<>>)
        \o Phase("dc", xs[o + 1], ys[o + 1])
        \o Phase("ac", xs[o + 2], ys[o + 2])
        \o Phase("dc", xs[o + 3], ys[o + 3])
        \o Phase("ac", xs[o + 4], ys[o + 4])

\* line 397: the readings returned
MeasureResult(ciclo, xs, ys) ==
    IF ciclo = <<>> THEN [std_readings |-> xs, dut_readings |-> ys]
    ELSE [std_readings |-> <<ciclo[1]>> \o xs, dut_readings |-> <<ciclo[2]>> \o ys]

\* the readings measure() may take
MeasureInputs(ciclo) ==
    LET first == IF ciclo = <<>> THEN 1 ELSE 2
    IN  Prod([j \in 1..(6 - first) |-> CycleStd(j + first - 1)])
        \X Prod([j \in 1..(6 - first) |-> CycleDut(j + first - 1)])

(***************************************************************************)
(* acdc_calc(readings, N, vdc_atual), lines 405-433                        *)
(***************************************************************************)
\* variant: the correction is applied to the voltage the previous call
\* returned, kept between calls, instead of the argument
AcdcCalcComMemoria(rd, N, vdc) ==
    LET x == [j \in 1..5 |-> ParseReading(rd.std_readings[j])]
        y == [j \in 1..5 |-> ParseReading(rd.dut_readings[j])]
        Xac == FMean(<<x[1], x[3], x[5]>>)
        Xdc == FMean(<<x[2], x[4]>>)
        Yac == FMean(<<y[1], y[3], y[5]>>)
        Ydc == FMean(<<y[2], y[4]>>)
        X == FSub(FDiv(Xac, Xdc), One)
        Y == FSub(FDiv(Yac, Ydc), One)
        YoverN == FDiv(Y, N.nY)
        base == IF lastRep.outcome = "called" THEN lastRep.adj_dc ELSE vdc
    IN  [std_readings |-> x,
         dut_readings |-> y,
         dif |-> FMul(Million, FDiv(FSub(FDiv(X, N.nX), YoverN), FAdd(One, YoverN))),
         Delta |-> FMul(Million, FSub(Yac, Ydc)),
         adj_dc |-> FMul(base, FAdd(One, FDiv(FSub(Yac, Ydc), FMul(N.nY, Ydc))))]

\* variant: the correction computed from the standard channel
AcdcCalcPadrao(rd, N, vdc) ==
    LET x == [j \in 1..5 |-> ParseReading(rd.std_readings[j])]
        y == [j \in 1..5 |-> ParseReading(rd.dut_readings[j])]
        Xac == FMean(<<x[1], x[3], x[5]>>)
        Xdc == FMean(<<x[2], x[4]>>)
        Yac == FMean(<<y[1], y[3], y[5]>>)
        Ydc == FMean(<<y[2], y[4]>>)
        X == FSub(FDiv(Xac, Xdc), One)
        Y == FSub(FDiv(Yac, Ydc), One)
        YoverN == FDiv(Y, N.nY)
    IN  [std_readings |-> x,
         dut_readings |-> y,
         dif |-> FMul(Million, FDiv(FSub(FDiv(X, N.nX), YoverN), FAdd(One, YoverN))),
         Delta |-> FMul(Million, FSub(Yac, Ydc)),
         adj_dc |-> FMul(vdc, FAdd(One, FDiv(FSub(Xac, Xdc), FMul(N.nX, Xdc))))]

\* the commands acdc_calc() issues: none
AcdcCalcTrace == <<>>
\* lines 429-430: the clock values the two calls may see
Relogio == {1, 2}

\* the value returned, timestamp left out
AcdcCalc(rd, N, vdc) ==
    LET x == [j \in 1..5 |-> ParseReading(rd.std_readings[j])]
        y == [j \in 1..5 |-> ParseReading(rd.dut_readings[j])]
        Xac == FMean(<<x[1], x[3], x[5]>>)
        Xdc == FMean(<<x[2], x[4]>>)
        Yac == FMean(<<y[1], y[3], y[5]>>)
        Ydc == FMean(<<y[2], y[4]>>)
        X == FSub(FDiv(Xac, Xdc), One)
        Y == FSub(FDiv(Yac, Ydc), One)
        YoverN == FDiv(Y, N.nY)
    IN  [std_readings |-> x,
         dut_readings |-> y,
         dif |-> FMul(Million, FDiv(FSub(FDiv(X, N.nX), YoverN), FAdd(One, YoverN))),
         Delta |-> FMul(Million, FSub(Yac, Ydc)),
         adj_dc |-> FMul(vdc, FAdd(One, FDiv(FSub(Yac, Ydc), FMul(N.nY, Ydc))))]

(***************************************************************************)
(* main(), lines 593-674                                                   *)
(***************************************************************************)
\* a local variable not yet assigned
NoFloat == [t |-> "unbound", n |-> 0, d |-> 1]
NoArray == [nX |-> NoFloat, nY |-> NoFloat, k |-> <<>>]
NoReadings == [std_readings |-> <<>>, dut_readings |-> <<>>]
NoCall == [measure_vdc |-> NoFloat, measure_vac |-> NoFloat, calc_vdc |-> NoFloat]
NoRep == [outcome |-> "none", dif |-> NoFloat, Delta |-> NoFloat, adj_dc |-> NoFloat]

\* calls that do no instrument I/O but may raise (sensor bus, file system)
Bme280InitTrace == <<Ev("i2c", "load_calibration_params", Zero, 0)>>
CriarRegistroTrace == <<Ev("file", "criar_registro", Zero, 0)>>
RegistroFrequenciaTrace == <<Ev("file", "registro_frequencia", Zero, 0)>>
RegistroMediaTrace == <<Ev("file", "registro_media", Zero, 0)>>
\* lines 645-654: bme280_read(), then registro_linha() of an accepted repetition
Bme280ReadTrace == <<Ev("i2c", "sample", Zero, 0), Ev("file", "registro_linha", Zero, 0)>>

\* variants of the tests and initial values below
DescartadoGe(d) == FGe(FAbs(d), Rat(50, 1))
DcPerigosaFrouxa(v) == FGt(v, FMul(Rat(12, 10), vdc_nominal))
AcPerigosaAbs(v) == FGt(FAbs(v), FMul(Rat(11, 10), FAbs(vac_nominal)))
ContinuaMaisUma(n) == n <= repeticoes
DiffInicialMantem(old) == old
\* variant: the sensor read in the accept branch only
AmostrasAceitas(n, descartado) == IF descartado THEN n ELSE n + 1
\* line 645: bme280_read() is called in every repetition, before the test of
\* line 649; n is the number of samples taken so far
Amostras(n, descartado) == n + 1
\* line 649: the outlier test
Descartado(d) == FGt(FAbs(d), Rat(50, 1))
\* variant: the bound not tested in the repetition that may be the last
DcPerigosaNaoFinal(v) ==
    i + 1 < repeticoes /\ FGt(v, FMul(Rat(11, 10), vdc_nominal))
\* line 657: the DC safety bound
DcPerigosa(v) == FGt(v, FMul(Rat(11, 10), vdc_nominal))
\* line 625: the AC safety bound
AcPerigosa(v) == FGt(v, FMul(Rat(11, 10), vac_nominal))
\* variant: the first pair of the previous cycle carried instead of the last
CicloAcPrimeiro(first, rd) ==
    IF first THEN <<>> ELSE <<rd.std_readings[1], rd.dut_readings[1]>>
\* lines 635-639: the carried-over pair
CicloAc(first, rd) ==
    IF first THEN <<>> ELSE <<rd.std_readings[5], rd.dut_readings[5]>>
\* variant: every repetition counted, accepted or not
ContinuaTotal(n) == total < repeticoes
\* line 633: the loop test
Continua(n) == n < repeticoes
\* line 608: the next frequency point, if any
TemFrequencia(j) == j < Len(freq_array)
\* line 629: the accepted differences at the start of a frequency point
DiffInicial(old) == <<>>
\* variant: the DC voltage set to nominal once, before the first frequency
VdcInicialMantem(old) == IF old = NoFloat THEN vdc_nominal ELSE old
\* line 631: the DC voltage at the start of a frequency point
VdcInicial(old) == vdc_nominal
\* line 666: the list handed to registro_media
Diferenca(d) == d

Init ==
    /\ config \in [voltage : Voltages, repeticoes : 1..MaxRepeticoes]
    /\ pc = "bme280_init"
    /\ freqIdx = 0
    /\ n_array = NoArray
    /\ vac_atual = NoFloat
    /\ vdc_atual = NoFloat
    /\ first_measure = FALSE
    /\ ciclo_ac = <<>>
    /\ readings = NoReadings
    /\ i = 0
    /\ diff_acdc = <<>>
    /\ Delta = <<>>
    /\ inst = [handles |-> {}, sw |-> "unknown", out1 |-> FALSE, out2 |-> FALSE]
    /\ file = [created |-> FALSE, sections |-> 0, rows |-> <<>>,
               summaries |-> 0, summary |-> <<>>, media |-> NoFloat]
    /\ sensorReads = 0
    /\ calls = <<>>
    /\ lastCall = NoCall
    /\ lastRep = NoRep
    /\ lastTrace = <<>>
    /\ stops = [started |-> 0, completed |-> 0]
    /\ fault = "none"
    /\ total = 0
    /\ hM = 4

locals == <<freqIdx, n_array, vac_atual, vdc_atual, first_measure, ciclo_ac,
            readings, i, diff_acdc, Delta>>
history == <<sensorReads, calls, lastCall, lastRep, total>>

\* main() has returned or propagated an exception: its locals are gone
Returned ==
    /\ freqIdx' = 0
    /\ n_array' = NoArray
    /\ vac_atual' = NoFloat
    /\ vdc_atual' = NoFloat
    /\ first_measure' = FALSE
    /\ ciclo_ac' = <<>>
    /\ readings' = NoReadings
    /\ i' = 0
    /\ diff_acdc' = <<>>
    /\ Delta' = <<>>

\* the history of a frequency point is not kept once main() is over
Forgotten ==
    /\ sensorReads' = 0
    /\ calls' = <<>>
    /\ lastCall' = NoCall
    /\ lastRep' = NoRep
    /\ total' = 0

\* line 597
Bme280Init ==
    /\ pc = "bme280_init"
    /\ inst' = [inst EXCEPT !.handles = @ \cup {"bus"}]
    /\ lastTrace' = Bme280InitTrace
    /\ pc' = "instrument_init"
    /\ UNCHANGED <<config, locals, file, history, stops, fault, hM>>

\* line 599
InstrumentInit ==
    /\ pc = "instrument_init"
    /\ inst' = ApplyAll(inst, InstrumentInitTrace)
    /\ lastTrace' = InstrumentInitTrace
    /\ pc' = "meas_init"
    /\ UNCHANGED <<config, locals, file, history, stops, fault, hM>>

\* line 601
MeasInit ==
    /\ pc = "meas_init"
    /\ inst' = ApplyAll(inst, MeasInitTrace)
    /\ lastTrace' = MeasInitTrace
    /\ pc' = "criar_registro"
    /\ UNCHANGED <<config, locals, file, history, stops, fault, hM>>

\* line 603
CriarRegistro ==
    /\ pc = "criar_registro"
    /\ file' = [file EXCEPT !.created = TRUE]
    /\ lastTrace' = CriarRegistroTrace
    /\ pc' = "aquecimento"
    /\ UNCHANGED <<config, locals, inst, history, stops, fault, hM>>

\* variant: n_measure run for the first frequency point only
ProximaFrequenciaSemN ==
    IF TemFrequencia(freqIdx)
    THEN /\ freqIdx' = freqIdx + 1
         /\ pc' = IF freqIdx = 0 THEN "n_measure" ELSE "equilibrio"
         /\ calls' = <<>>
         /\ total' = 0
         /\ sensorReads' = 0
    ELSE /\ pc' = "stop_instruments"
         /\ UNCHANGED <<freqIdx, calls, total, sensorReads>>

\* line 608: the for statement takes the next value of freq_array, or ends
ProximaFrequencia ==
    IF TemFrequencia(freqIdx)
    THEN /\ freqIdx' = freqIdx + 1
         /\ pc' = "n_measure"
         /\ calls' = <<>>
         /\ total' = 0
         /\ sensorReads' = 0
    ELSE /\ pc' = "stop_instruments"
         /\ UNCHANGED <<freqIdx, calls, total, sensorReads>>

\* lines 606-609
Aquecimento ==
    /\ pc = "aquecimento"
    /\ inst' = ApplyAll(inst, AquecimentoTrace(HeatingTime))
    /\ lastTrace' = AquecimentoTrace(HeatingTime)
    /\ ProximaFrequencia
    /\ UNCHANGED <<config, n_array, vac_atual, vdc_atual, first_measure, ciclo_ac,
                   readings, i, diff_acdc, Delta, file, lastCall, lastRep, stops,
                   fault, hM>>

\* lines 613-614
NMeasure ==
    /\ pc = "n_measure"
    /\ \E in \in NInputs(4) :
          /\ n_array' = NMeasureResult(4, in[1], in[2])
          /\ lastTrace' = NMeasureTrace(4, Freq(freqIdx), in[1], in[2])
    /\ inst' = ApplyAll(inst, lastTrace')
    /\ calls' = Append(calls, "n_measure")
    /\ pc' = "equilibrio"
    /\ UNCHANGED <<config, freqIdx, vac_atual, vdc_atual, first_measure, ciclo_ac,
                   readings, i, diff_acdc, Delta, file, sensorReads, lastCall,
                   lastRep, stops, fault, total, hM>>

\* line 620
Equilibrio ==
    /\ pc = "equilibrio"
    /\ \E ys \in EqInputs :
          /\ vac_atual' = EquilibrioResult(ys)
          /\ lastTrace' = EquilibrioTrace(Freq(freqIdx), ys)
    /\ inst' = ApplyAll(inst, lastTrace')
    /\ calls' = Append(calls, "equilibrio")
    /\ pc' = "registro_frequencia"
    /\ UNCHANGED <<config, freqIdx, n_array, vdc_atual, first_measure, ciclo_ac,
                   readings, i, diff_acdc, Delta, file, sensorReads, lastCall,
                   lastRep, stops, fault, total, hM>>

\* lines 622-633: the record section of the frequency is opened, the AC
\* safety bound is checked and the sampling loop is initialised
IniciarMedicao ==
    /\ pc = "registro_frequencia"
    /\ file' = [file EXCEPT !.sections = @ + 1, !.rows = <<>>,
                            !.summary = <<>>, !.media = NoFloat]
    /\ lastTrace' = RegistroFrequenciaTrace
    /\ first_measure' = TRUE
    /\ IF AcPerigosa(vac_atual)
       THEN /\ pc' = "except"
            /\ fault' = "ac_high"
            /\ UNCHANGED <<diff_acdc, Delta, vdc_atual, i>>
       ELSE /\ diff_acdc' = DiffInicial(diff_acdc)
            /\ Delta' = <<>>
            /\ vdc_atual' = VdcInicial(vdc_atual)
            /\ i' = 0
            /\ pc' = IF Continua(0) THEN "measure" ELSE "registro_media"
            /\ fault' = fault
    /\ UNCHANGED <<config, freqIdx, n_array, vac_atual, ciclo_ac, readings, inst,
                   history, stops, hM>>

\* lines 634-640
Measure ==
    /\ pc = "measure"
    /\ total < MaxTotal
    /\ ciclo_ac' = CicloAc(first_measure, readings)
    /\ first_measure' = FALSE
    /\ \E in \in MeasureInputs(ciclo_ac') :
          /\ readings' = MeasureResult(ciclo_ac', in[1], in[2])
          /\ lastTrace' = MeasureTrace(vdc_atual, vac_atual, Freq(freqIdx),
                                       ciclo_ac', in[1], in[2])
    /\ inst' = ApplyAll(inst, lastTrace')
    /\ calls' = Append(calls, "measure")
    /\ lastCall' = [lastCall EXCEPT !.measure_vdc = vdc_atual,
                                    !.measure_vac = vac_atual]
    /\ total' = total + 1
    /\ pc' = "acdc_calc"
    /\ UNCHANGED <<config, freqIdx, n_array, vac_atual, vdc_atual, i, diff_acdc,
                   Delta, file, sensorReads, lastRep, stops, fault, hM>>

\* variant: the corrected voltage written to the row
LinhaCorrigida(results, vdc) ==
    [dif |-> results.dif, Delta |-> results.Delta, vdc |-> results.adj_dc]

\* line 654: registro_linha(filename, results, vdc_atual, ca_data)
Linha(results, vdc) ==
    [dif |-> results.dif, Delta |-> results.Delta, vdc |-> vdc]

\* lines 641-658 and the loop test of line 633: the rest of a repetition
Repeticao ==
    /\ pc = "acdc_calc"
    /\ LET results == AcdcCalc(readings, n_array, vdc_atual)
       IN  /\ IF Descartado(results.Delta)
              THEN /\ UNCHANGED <<diff_acdc, Delta, file, i>>
                   /\ lastRep' = [outcome |-> "discarded", dif |-> results.dif,
                                  Delta |-> results.Delta, adj_dc |-> results.adj_dc]
              ELSE /\ diff_acdc' = Append(diff_acdc, results.dif)
                   /\ Delta' = Append(Delta, results.Delta)
                   /\ file' = [file EXCEPT !.rows = Append(@, Linha(results, vdc_atual))]
                   /\ i' = i + 1
                   /\ lastRep' = [outcome |-> "accepted", dif |-> results.dif,
                                  Delta |-> results.Delta, adj_dc |-> results.adj_dc]
           /\ vdc_atual' = results.adj_dc
           /\ IF DcPerigosa(results.adj_dc)
              THEN pc' = "except" /\ fault' = "dc_high"
              ELSE /\ pc' = IF Continua(i') THEN "measure" ELSE "registro_media"
                   /\ fault' = fault
    /\ sensorReads' = Amostras(sensorReads,
                            Descartado(AcdcCalc(readings, n_array, vdc_atual).Delta))
    /\ calls' = Append(calls, "acdc_calc")
    /\ lastCall' = [lastCall EXCEPT !.calc_vdc = vdc_atual]
    /\ UNCHANGED <<config, freqIdx, n_array, vac_atual, first_measure, ciclo_ac,
                   readings, inst, lastTrace, stops, total, hM>>

\* lines 660-666, then the for statement
RegistroMedia ==
    /\ pc = "registro_media"
    /\ file' = [file EXCEPT !.summaries = @ + 1,
                            !.summary = Diferenca(diff_acdc),
                            !.media = FMean(Diferenca(diff_acdc))]
    /\ lastTrace' = RegistroMediaTrace
    /\ ProximaFrequencia
    /\ UNCHANGED <<config, n_array, vac_atual, vdc_atual, first_measure, ciclo_ac,
                   readings, i, diff_acdc, Delta, inst, lastCall, lastRep, stops,
                   fault, hM>>

\* line 668, reached when every frequency point is done
StopInstruments ==
    /\ pc = "stop_instruments"
    /\ inst' = ApplyAll(inst, StopTrace)
    /\ lastTrace' = StopTrace
    /\ stops' = [started |-> stops.started + 1, completed |-> stops.completed + 1]
    /\ pc' = "done"
    /\ Returned
    /\ Forgotten
    /\ UNCHANGED <<config, file, fault, hM>>

\* the commands of the call main() is about to make (the readings, which
\* do not change what the commands do to the instruments, are arbitrary)
Pending ==
    CASE pc = "bme280_init" -> Bme280InitTrace
      [] pc = "instrument_init" -> InstrumentInitTrace
      [] pc = "meas_init" -> MeasInitTrace
      [] pc = "criar_registro" -> CriarRegistroTrace
      [] pc = "aquecimento" -> AquecimentoTrace(HeatingTime)
      [] pc = "n_measure" ->
            NMeasureTrace(4, Freq(freqIdx), [j \in 1..5 |-> 0], [j \in 1..5 |-> 0])
      [] pc = "equilibrio" ->
            EquilibrioTrace(Freq(freqIdx), <<0, 0, 0>>)
      [] pc = "registro_frequencia" -> RegistroFrequenciaTrace
      [] pc = "measure" ->
            MeasureTrace(vdc_atual, vac_atual, Freq(freqIdx),
                         CicloAc(first_measure, readings),
                         [j \in 1..5 |-> 0], [j \in 1..5 |-> 0])
      [] pc = "acdc_calc" -> Bme280ReadTrace
      [] pc = "registro_media" -> RegistroMediaTrace
      [] pc = "stop_instruments" -> StopTrace

\* lines 671-674: the except clause, entered with the instruments in state
\* st, calls stop_instruments().  It returns, or it raises in turn and the
\* exception leaves main(): a NameError when the global sw was never bound
\* (line 488), a failing command or an interrupted wait otherwise
ExceptClause(st, started) ==
    \/ /\ "sw" \in st.handles
       /\ inst' = ApplyAll(st, StopTrace)
       /\ stops' = [started |-> started + 1, completed |-> stops.completed + 1]
       /\ pc' = "done"
    \/ /\ IF "sw" \in st.handles
          THEN inst' \in Interrupted(st, StopTrace)
          ELSE inst' = st
       /\ stops' = [started |-> started + 1, completed |-> stops.completed]
       /\ pc' = "raised"

\* a call inside the try block raises part-way (a transport failure, a
\* sensor or file error, or the operator's interrupt during a wait) and
\* the except clause runs
Raise ==
    /\ pc \in {"bme280_init", "instrument_init", "meas_init", "criar_registro",
               "aquecimento", "n_measure", "equilibrio", "registro_frequencia",
               "measure", "acdc_calc", "registro_media", "stop_instruments"}
    /\ \E st \in Interrupted(inst, Pending) :
          ExceptClause(st, IF pc = "stop_instruments"
                           THEN stops.started + 1 ELSE stops.started)
    /\ fault' = "raised"
    /\ lastTrace' = <<>>
    /\ Returned
    /\ Forgotten
    /\ UNCHANGED <<config, file, hM>>

\* the safety faults of lines 626 and 658 reach the except clause
Except ==
    /\ pc = "except"
    /\ ExceptClause(inst, stops.started)
    /\ lastTrace' = <<>>
    /\ Returned
    /\ Forgotten
    /\ UNCHANGED <<config, file, fault, hM>>

Next ==
    \/ Bme280Init
    \/ InstrumentInit
    \/ MeasInit
    \/ CriarRegistro
    \/ Aquecimento
    \/ NMeasure
    \/ Equilibrio
    \/ IniciarMedicao
    \/ Measure
    \/ Repeticao
    \/ RegistroMedia
    \/ StopInstruments
    \/ Raise
    \/ Except

Spec == Init /\ [][Next]_vars

(***************************************************************************)
(* n_measure(M) in isolation, for every argument M of 0..MaxM.             *)
(***************************************************************************)
HInputs(M) ==
    LET m == NPairs(M)
    IN  Prod([j \in 1..(m + 1) |-> NStd(NLevel(j - 1))])
        \X Prod([j \in 1..(m + 1) |-> HDut])

InitN ==
    /\ config = [voltage |-> 1, repeticoes |-> 1]
    /\ pc = "h_n_measure"
    /\ freqIdx = 1
    /\ n_array = NoArray
    /\ vac_atual = NoFloat
    /\ vdc_atual = NoFloat
    /\ first_measure = FALSE
    /\ ciclo_ac = <<>>
    /\ readings = NoReadings
    /\ i = 0
    /\ diff_acdc = <<>>
    /\ Delta = <<>>
    /\ inst = [handles |-> {"bus", "ac_source", "dvm", "sw"}, sw |-> "dc",
               out1 |-> TRUE, out2 |-> TRUE]
    /\ file = [created |-> TRUE, sections |-> 0, rows |-> <<>>,
               summaries |-> 0, summary |-> <<>>, media |-> NoFloat]
    /\ sensorReads = 0
    /\ calls = <<>>
    /\ lastCall = NoCall
    /\ lastRep = NoRep
    /\ lastTrace = <<>>
    /\ stops = [started |-> 0, completed |-> 0]
    /\ fault = "none"
    /\ total = 0
    /\ hM \in 0..MaxM

HNMeasure ==
    /\ pc = "h_n_measure"
    /\ \E in \in HInputs(hM) :
          /\ n_array' = NMeasureResult(hM, in[1], in[2])
          /\ lastTrace' = NMeasureTrace(hM, Freq(freqIdx), in[1], in[2])
    /\ inst' = ApplyAll(inst, lastTrace')
    /\ calls' = Append(calls, "n_measure")
    /\ pc' = "h_returned"
    /\ UNCHANGED <<config, freqIdx, vac_atual, vdc_atual, first_measure, ciclo_ac,
                   readings, i, diff_acdc, Delta, file, sensorReads, lastCall,
                   lastRep, stops, fault, total, hM>>

NextN == HNMeasure

SpecN == InitN /\ [][NextN]_vars

(***************************************************************************)
(* equilibrio() in isolation, for device readings in any order.            *)
(***************************************************************************)
\* the state main() has reached when it calls a core function, at program
\* position p
HInit(p) ==
    /\ pc = p
    /\ freqIdx = 1
    /\ n_array = NoArray
    /\ vac_atual = NoFloat
    /\ vdc_atual = NoFloat
    /\ first_measure = FALSE
    /\ ciclo_ac = <<>>
    /\ readings = NoReadings
    /\ i = 0
    /\ diff_acdc = <<>>
    /\ Delta = <<>>
    /\ inst = [handles |-> {"bus", "ac_source", "dvm", "sw"}, sw |-> "ac",
               out1 |-> TRUE, out2 |-> TRUE]
    /\ file = [created |-> TRUE, sections |-> 0, rows |-> <<>>,
               summaries |-> 0, summary |-> <<>>, media |-> NoFloat]
    /\ sensorReads = 0
    /\ calls = <<>>
    /\ lastCall = NoCall
    /\ lastRep = NoRep
    /\ lastTrace = <<>>
    /\ stops = [started |-> 0, completed |-> 0]
    /\ fault = "none"
    /\ total = 0
    /\ hM = 4

\* readings of an isolated equilibrio() call
HEqDut == {23, 24, 25, 26, 27}

InitE ==
    /\ config \in [voltage : Voltages, repeticoes : {1}]
    /\ HInit("h_equilibrio")

HEquilibrio ==
    /\ pc = "h_equilibrio"
    /\ \E ys \in Prod([j \in 1..3 |-> HEqDut]) :
          /\ vac_atual' = EquilibrioResult(ys)
          /\ lastTrace' = EquilibrioTrace(Freq(freqIdx), ys)
    /\ inst' = ApplyAll(inst, lastTrace')
    /\ calls' = Append(calls, "equilibrio")
    /\ pc' = "h_eq_returned"
    /\ UNCHANGED <<config, freqIdx, n_array, vdc_atual, first_measure, ciclo_ac,
                   readings, i, diff_acdc, Delta, file, sensorReads, lastCall,
                   lastRep, stops, fault, total, hM>>

NextE == HEquilibrio

SpecE == InitE /\ [][NextE]_vars

(***************************************************************************)
(* acdc_calc() in isolation, called twice with the same arguments.         *)
(***************************************************************************)
\* the coefficients and the DC voltages acdc_calc() is called with
HCoef == {[nX |-> Rat(2, 1), nY |-> Rat(1, 1), k |-> <<100, -100, 100, -100>>],
          [nX |-> Rat(2, 1), nY |-> Rat(2, 1), k |-> <<100, -100, 100, -100>>],
          [nX |-> Rat(2, 1), nY |-> Zero, k |-> <<100, -100, 100, -100>>]}
HVdc == {Rat(1, 1), Rat(21, 20)}

InitC ==
    /\ config = [voltage |-> 1, repeticoes |-> 2]
    /\ pc = "h_acdc_calc"
    /\ freqIdx = 1
    /\ n_array \in HCoef
    /\ vac_atual = Rat(1, 1)
    /\ vdc_atual \in HVdc
    /\ first_measure = FALSE
    /\ ciclo_ac = <<>>
    /\ \E in \in MeasureInputs(<<>>) : readings = MeasureResult(<<>>, in[1], in[2])
    /\ i = 1
    /\ diff_acdc = <<Zero>>
    /\ Delta = <<Zero>>
    /\ inst = [handles |-> {"bus", "ac_source", "dvm", "sw"}, sw |-> "ac",
               out1 |-> TRUE, out2 |-> TRUE]
    /\ file = [created |-> TRUE, sections |-> 1, rows |-> <<>>,
               summaries |-> 0, summary |-> <<>>, media |-> NoFloat]
    /\ sensorReads = 0
    /\ calls = <<>>
    /\ lastCall = NoCall
    /\ lastRep = NoRep
    /\ lastTrace = <<Route("ac")>>
    /\ stops = [started |-> 0, completed |-> 0]
    /\ fault = "none"
    /\ total = 0
    /\ hM = 4

\* results = acdc_calc(readings, n_value, vdc_atual), at most twice
HAcdcCalc ==
    /\ pc = "h_acdc_calc"
    /\ total < 2
    /\ \E ts \in Relogio :
          LET results == AcdcCalc(readings, n_array, vdc_atual)
          IN  lastRep' = [outcome |-> "called", dif |-> results.dif,
                          Delta |-> results.Delta, adj_dc |-> results.adj_dc,
                          timestamp |-> ts]
    /\ lastTrace' = AcdcCalcTrace
    /\ inst' = ApplyAll(inst, AcdcCalcTrace)
    /\ calls' = Append(calls, "acdc_calc")
    /\ lastCall' = [lastCall EXCEPT !.calc_vdc = vdc_atual]
    /\ total' = total + 1
    /\ UNCHANGED <<config, pc, freqIdx, n_array, vac_atual, vdc_atual, first_measure,
                   ciclo_ac, readings, i, diff_acdc, Delta, file, sensorReads,
                   stops, fault, hM>>

NextC == HAcdcCalc

SpecC == InitC /\ [][NextC]_vars

(***************************************************************************)
(* main() with the sampling loop left unbounded.  The corrected DC voltage *)
(* would take ever new values; the detector is taken to answer so that it  *)
(* stays on a few levels, or is not finite.  What is remembered of the     *)
(* calls made stops growing at the bounds.                                 *)
(***************************************************************************)
\* the levels of the corrected DC voltage
VdcGrid == {vdc_nominal, FMul(Rat(20, 21), vdc_nominal)}
\* readings of the device in one phase of measure() (odd phases are AC)
LDut(phase) == IF phase % 2 = 1 THEN {420} ELSE {400, 420, 441}
\* the readings measure() may take with the DC voltage at vdc
LInputs(ciclo, vdc) ==
    LET first == IF ciclo = <<>> THEN 1 ELSE 2
        cand == Prod([j \in 1..(6 - first) |-> CycleStd(j + first - 1)])
                \X Prod([j \in 1..(6 - first) |-> LDut(j + first - 1)])
    IN  {in \in cand :
            LET adj == AcdcCalc(MeasureResult(ciclo, in[1], in[2]), n_array, vdc).adj_dc
            IN  ~IsFinite(adj) \/ adj \in VdcGrid}

\* lines 634-640
MeasureL ==
    /\ pc = "measure"
    /\ ciclo_ac' = CicloAc(first_measure, readings)
    /\ first_measure' = FALSE
    /\ \E in \in LInputs(ciclo_ac', vdc_atual) :
          /\ readings' = MeasureResult(ciclo_ac', in[1], in[2])
          /\ lastTrace' = MeasureTrace(vdc_atual, vac_atual, Freq(freqIdx),
                                       ciclo_ac', in[1], in[2])
    /\ inst' = ApplyAll(inst, lastTrace')
    /\ calls' = IF total < MaxTotal THEN Append(calls, "measure") ELSE calls
    /\ lastCall' = [lastCall EXCEPT !.measure_vdc = vdc_atual,
                                    !.measure_vac = vac_atual]
    /\ total' = IF total < MaxTotal THEN total + 1 ELSE total
    /\ pc' = "acdc_calc"
    /\ UNCHANGED <<config, freqIdx, n_array, vac_atual, vdc_atual, i, diff_acdc,
                   Delta, file, sensorReads, lastRep, stops, fault, hM>>

\* lines 641-658 and the loop test of line 633
RepeticaoL ==
    /\ pc = "acdc_calc"
    /\ LET results == AcdcCalc(readings, n_array, vdc_atual)
       IN  /\ IF Descartado(results.Delta)
              THEN /\ UNCHANGED <<diff_acdc, Delta, file, i>>
                   /\ lastRep' = [outcome |-> "discarded", dif |-> results.dif,
                                  Delta |-> results.Delta, adj_dc |-> results.adj_dc]
              ELSE /\ diff_acdc' = Append(diff_acdc, results.dif)
                   /\ Delta' = Append(Delta, results.Delta)
                   /\ file' = [file EXCEPT !.rows = Append(@, Linha(results, vdc_atual))]
                   /\ i' = i + 1
                   /\ lastRep' = [outcome |-> "accepted", dif |-> results.dif,
                                  Delta |-> results.Delta, adj_dc |-> results.adj_dc]
           /\ vdc_atual' = results.adj_dc
           /\ IF DcPerigosa(results.adj_dc)
              THEN pc' = "except" /\ fault' = "dc_high"
              ELSE /\ pc' = IF Continua(i') THEN "measure" ELSE "registro_media"
                   /\ fault' = fault
    /\ sensorReads' = IF sensorReads < MaxTotal
                      THEN Amostras(sensorReads,
                                    Descartado(AcdcCalc(readings, n_array, vdc_atual).Delta))
                      ELSE sensorReads
    /\ calls' = IF Len(calls) % 2 = 1 THEN Append(calls, "acdc_calc") ELSE calls
    /\ lastCall' = [lastCall EXCEPT !.calc_vdc = vdc_atual]
    /\ UNCHANGED <<config, freqIdx, n_array, vac_atual, first_measure, ciclo_ac,
                   readings, inst, lastTrace, stops, total, hM>>

\* main() takes its next step
Progresso ==
    \/ Bme280Init
    \/ InstrumentInit
    \/ MeasInit
    \/ CriarRegistro
    \/ Aquecimento
    \/ NMeasure
    \/ Equilibrio
    \/ IniciarMedicao
    \/ MeasureL
    \/ RepeticaoL
    \/ RegistroMedia
    \/ StopInstruments
    \/ Except

NextL == Progresso \/ Raise

\* the positions of main()
Posicoes ==
    {"bme280_init", "instrument_init", "meas_init", "criar_registro",
     "aquecimento", "n_measure", "equilibrio", "registro_frequencia", "measure",
     "acdc_calc", "registro_media", "stop_instruments", "except", "done", "raised"}
\* main() leaves the statement it is at
Passo == pc \notin {"done", "raised"} /\ pc' \in Posicoes \ {pc}

\* a running program takes its next step; nothing is assumed of the detector
SpecL == Init /\ [][NextL]_vars /\ WF_pc(Passo)

(***************************************************************************)
(* Properties.                                                             *)
(***************************************************************************)
\* commands of a trace, counted
Routings(tr) == Cardinality({j \in DOMAIN tr : tr[j].op = "sw"})
Leituras(tr, ch) == Cardinality({j \in DOMAIN tr : tr[j].op = "read" /\ tr[j].a = ch})
Settlings(tr) ==
    Cardinality({j \in DOMAIN tr : tr[j].op = "espera" /\ tr[j].c = WaitTime})
\* the DC amplitudes a trace sends to the source
DcSent(tr) == {tr[j].v : j \in {k \in DOMAIN tr : tr[k].op = "src" /\ tr[k].a = "SOUR1:VOLT"}}

\* main() is in or past its except clause
Halted == pc \in {"except", "done", "raised"}
\* a step that completes a repetition (lines 641-658)
RepDone == pc = "acdc_calc" /\ pc' \in {"measure", "registro_media", "except"}
\* a step that completes a measure() call
MeasureDone == pc = "measure" /\ pc' = "acdc_calc"
Fifty == Rat(50, 1)
SafetyLimit == FMul(Rat(11, 10), Rat(config.voltage, 1))

\* C1: a repetition with |Delta| > 50 leaves the accepted differences, the
\* accepted-count and the record rows as they were; one with |Delta| <= 50
\* (50 included) appends its difference and one row and adds exactly 1 to
\* the accepted-count; either way the DC voltage becomes adj_dc, the readings
\* stay available and the next measure() starts from their phase-4 pair.
C1_OutlierGate ==
    [][/\ RepDone =>
            LET r == AcdcCalc(readings, n_array, vdc_atual)
            IN  /\ vdc_atual' = r.adj_dc
                /\ readings' = readings
                /\ first_measure' = FALSE
                /\ FGt(FAbs(r.Delta), Fifty) =>
                      /\ diff_acdc' = diff_acdc
                      /\ i' = i
                      /\ file'.rows = file.rows
                /\ FLe(FAbs(r.Delta), Fifty) =>
                      /\ diff_acdc' = Append(diff_acdc, r.dif)
                      /\ i' = i + 1
                      /\ Len(file'.rows) = Len(file.rows) + 1
       /\ (MeasureDone /\ lastRep.outcome = "discarded") =>
            /\ readings'.std_readings[1] = readings.std_readings[5]
            /\ readings'.dut_readings[1] = readings.dut_readings[5]
            /\ lastCall'.measure_vdc = lastRep.adj_dc]_vars

\* C1 witness: an accepted repetition with Delta exactly 50 was followed by a
\* discarded one, and the loop goes on with the corrected DC voltage
C1_Witness ==
    /\ pc = "measure"
    /\ lastRep.outcome = "discarded"
    /\ i = 1
    /\ FEq(file.rows[1].Delta, Fifty)
    /\ vdc_atual = lastRep.adj_dc
    /\ vdc_atual # file.rows[1].vdc

\* C2: a completed repetition whose corrected DC voltage exceeds 1.1 x
\* nominal enters the except clause (fault dc_high); measure() is only ever
\* called with a DC voltage that passed that comparison, and sends it to the
\* source; after the fault no core call is made and no frequency is started.
C2_DcSafetyBound ==
    /\ [][RepDone =>
            LET r == AcdcCalc(readings, n_array, vdc_atual)
            IN  /\ FGt(r.adj_dc, SafetyLimit) => (pc' = "except" /\ fault' = "dc_high")
                /\ pc' = "except" => FGt(r.adj_dc, SafetyLimit)]_vars
    /\ [][MeasureDone =>
            /\ ~FGt(vdc_atual, SafetyLimit)
            /\ DcSent(lastTrace') = {Fmt3(vdc_atual)}]_vars
    /\ [][fault = "dc_high" =>
            /\ pc' \in {"done", "raised"}
            /\ Len(calls') <= Len(calls)
            /\ freqIdx' \in {freqIdx, 0}]_vars
    /\ [](fault = "dc_high" => Halted)

\* C2 witness: a discarded repetition of the first frequency point produced
\* a correction above the bound, with another frequency point still to go
C2_Witness ==
    /\ pc = "except"
    /\ fault = "dc_high"
    /\ lastRep.outcome = "discarded"
    /\ FGt(vdc_atual, SafetyLimit)
    /\ freqIdx < MaxFreqs

\* C3: when equilibrio() returned more than 1.1 x nominal AC, main() enters
\* the except clause (fault ac_high) without any measure() call for that
\* frequency; the except clause calls stop_instruments(), no core call
\* follows and no further frequency point is started.
C3_AcSafetyBound ==
    /\ [][(pc = "registro_frequencia" /\ pc' \notin {"done", "raised"}) =>
            /\ FGt(vac_atual, SafetyLimit) => (pc' = "except" /\ fault' = "ac_high")
            /\ pc' = "except" => FGt(vac_atual, SafetyLimit)]_vars
    /\ [][fault = "ac_high" =>
            /\ pc' \in {"done", "raised"}
            /\ stops'.started = stops.started + 1
            /\ Len(calls') <= Len(calls)
            /\ freqIdx' \in {freqIdx, 0}]_vars
    /\ [](fault = "ac_high" =>
            /\ Halted
            /\ \A j \in DOMAIN calls : calls[j] # "measure")

\* C3 witness: the AC fault at the first of several frequency points
C3_Witness ==
    /\ pc = "except"
    /\ fault = "ac_high"
    /\ calls = <<"n_measure", "equilibrio">>
    /\ FGt(vac_atual, SafetyLimit)
    /\ freqIdx < MaxFreqs

\* C4: every run that has ended has completed stop_instruments(): the
\* switch is at RESET and both source outputs are off.
C4_ShutdownCompleted ==
    pc \in {"done", "raised"} =>
        /\ stops.completed >= 1
        /\ inst.sw = "reset"
        /\ ~inst.out1
        /\ ~inst.out2

\* C5: stop_instruments() is started at most once per run.
C5_ShutdownOnce == stops.started <= 1

\* C6: a measure() call given a carried-over pair returns that pair as its
\* phase-0 readings and issues 4 routings, 4 settling waits and 4 reading
\* pairs, the first routing being the DC one of phase 1; without a pair it
\* issues 5 of each.
C6_CarryOver ==
    pc = "acdc_calc" =>
        LET n == IF ciclo_ac = <<>> THEN 5 ELSE 4
            first == CHOOSE j \in DOMAIN lastTrace :
                        /\ lastTrace[j].op \in {"sw", "read"}
                        /\ \A k \in 1..(j - 1) : lastTrace[k].op \notin {"sw", "read"}
        IN  /\ Routings(lastTrace) = n
            /\ Settlings(lastTrace) = n
            /\ Leituras(lastTrace, "std") = n
            /\ Leituras(lastTrace, "dut") = n
            /\ Len(readings.std_readings) = 5
            /\ Len(readings.dut_readings) = 5
            /\ ciclo_ac # <<>> =>
                  /\ readings.std_readings[1] = ciclo_ac[1]
                  /\ readings.dut_readings[1] = ciclo_ac[2]
                  /\ lastTrace[first] = Route("dc")

\* C6 witness: a measure() call with a carried-over pair has returned
C6_Witness ==
    /\ pc = "acdc_calc"
    /\ ciclo_ac # <<>>
    /\ Routings(lastTrace) = 4

\* C7: n_measure(M) takes one baseline pair and then a number of perturbation
\* pairs that is even and at least M: M when M is even, M + 1 when M is odd
\* (4 for the request of 4 that main() makes).
C7_EvenPairs ==
    pc = "h_returned" =>
        LET pairs == Leituras(lastTrace, "std") - 1
        IN  /\ pairs = Leituras(lastTrace, "dut") - 1
            /\ pairs % 2 = 0
            /\ pairs >= hM
            /\ pairs = IF hM % 2 = 0 THEN hM ELSE hM + 1
            /\ Len(n_array.k) = pairs
            /\ hM = 4 => pairs = 4

\* C7 witness: n_measure was called with an odd M and sampled M + 1 pairs
C7_Witness ==
    /\ pc = "h_returned"
    /\ hM = 3
    /\ Leituras(lastTrace, "dut") = 5

\* C8: a summary is written only when the accepted-count equals the target,
\* and the list it is computed from is the differences of the rows recorded
\* for that frequency point, in order: target entries, none discarded.
C8_Summary ==
    /\ [][file'.summaries # file.summaries =>
            /\ i = repeticoes
            /\ file'.summaries = file.sections]_vars
    /\ []((file.summaries = file.sections /\ file.sections > 0) =>
            /\ Len(file.summary) = repeticoes
            /\ file.summary = [j \in 1..Len(file.rows) |-> file.rows[j].dif]
            /\ file.media = FMean([j \in 1..Len(file.rows) |-> file.rows[j].dif])
            /\ \A j \in DOMAIN file.rows : ~FGt(FAbs(file.rows[j].Delta), Fifty))

\* C8 witness: the second frequency point is finalized after a discarded
\* repetition, its two accepted differences being different
C8_Witness ==
    /\ pc = "stop_instruments"
    /\ file.summaries = 2
    /\ file.sections = 2
    /\ total > repeticoes
    /\ Len(file.summary) = 2
    /\ file.summary[1] # file.summary[2]

\* C9: the calls made for a frequency point are n_measure, equilibrio, then
\* measure and acdc_calc in alternation; frequency points are taken in list
\* order, each after the summary of the previous one was written.
C9_CallOrder ==
    /\ [](\A j \in DOMAIN calls :
            calls[j] = IF j = 1 THEN "n_measure"
                       ELSE IF j = 2 THEN "equilibrio"
                       ELSE IF j % 2 = 1 THEN "measure" ELSE "acdc_calc")
    /\ [](pc = "registro_media" => (Len(calls) >= 4 /\ Len(calls) % 2 = 0))
    /\ [][freqIdx' \notin {freqIdx, 0} =>
            /\ freqIdx' = freqIdx + 1
            /\ calls' = <<>>
            /\ file'.summaries = freqIdx
            /\ file'.sections = freqIdx]_vars

\* C9 witness: the second frequency point is about to be finalized after
\* three repetitions
C9_Witness ==
    /\ pc = "registro_media"
    /\ freqIdx = 2
    /\ calls = <<"n_measure", "equilibrio", "measure", "acdc_calc", "measure",
                 "acdc_calc", "measure", "acdc_calc">>

\* C10: wherever the sampling loop stands, the rows recorded for the current
\* frequency point, the accepted differences and the accepted-count agree
\* and do not exceed the target; a discarded repetition adds no row.
C10_RecordsMatchCount ==
    /\ []((pc \in {"measure", "acdc_calc", "registro_media"}
           \/ (pc = "except" /\ fault = "dc_high")) =>
            /\ Len(file.rows) = i
            /\ Len(diff_acdc) = i
            /\ Len(Delta) = i
            /\ i <= repeticoes)
    /\ [][RepDone =>
            (Len(file'.rows) = Len(file.rows)
                <=> FGt(FAbs(AcdcCalc(readings, n_array, vdc_atual).Delta), Fifty))]_vars

\* C10 witness: between two repetitions, one accepted and one discarded so far
C10_Witness ==
    /\ pc = "measure"
    /\ total = 2
    /\ i = 1
    /\ Len(file.rows) = 1
    /\ repeticoes = 2

\* C11: a measure() call returns 5 readings per channel; every reading it
\* takes is preceded by a routing of the switch to the mode of its phase (AC
\* for the 1st, 3rd and 5th entry of the returned lists, DC for the 2nd and
\* 4th), with a wait of wait_time between that routing and the reading, and
\* is returned at the position of its phase.
C11_FivePhases ==
    pc = "acdc_calc" =>
        /\ Len(readings.std_readings) = 5
        /\ Len(readings.dut_readings) = 5
        /\ \A j \in DOMAIN lastTrace :
              lastTrace[j].op = "read" =>
                LET ch == lastTrace[j].a
                    nth == Cardinality({k \in 1..j : lastTrace[k].op = "read"
                                                     /\ lastTrace[k].a = ch})
                    ph == nth + 5 - Leituras(lastTrace, ch)
                    sws == {k \in 1..(j - 1) : lastTrace[k].op = "sw"}
                    r == CHOOSE k \in sws : \A m \in sws : m <= k
                    list == IF ch = "std" THEN readings.std_readings
                            ELSE readings.dut_readings
                IN  /\ sws # {}
                    /\ lastTrace[r].a = IF ph % 2 = 1 THEN "ac" ELSE "dc"
                    /\ \E w \in (r + 1)..(j - 1) : lastTrace[w] = Espera(WaitTime)
                    /\ list[ph] = lastTrace[j].c

\* C11 witness: a first measure() call returned readings that differ between
\* the AC phases
C11_Witness ==
    /\ pc = "acdc_calc"
    /\ ciclo_ac = <<>>
    /\ Leituras(lastTrace, "dut") = 5
    /\ readings.dut_readings[1] # readings.dut_readings[3]
    /\ readings.dut_readings[3] # readings.dut_readings[5]

\* C12 (as the code has it): the environmental sensor is sampled once in
\* every completed repetition, accepted or discarded: over a frequency point
\* the number of samples equals the number of repetitions made, and only the
\* samples of accepted repetitions reach a record row.
C12_SensorEveryRepetition ==
    /\ [][RepDone => sensorReads' = sensorReads + 1]_vars
    /\ []((pc \in {"measure", "registro_media"}
           \/ (pc = "except" /\ fault = "dc_high")) =>
            /\ sensorReads = total
            /\ Len(file.rows) = i
            /\ i <= sensorReads)

\* C12 witness: a frequency point completed with two accepted repetitions
\* and one discarded one, the sensor having been sampled three times
C12_Witness ==
    /\ pc = "registro_media"
    /\ i = 2
    /\ total = 3
    /\ sensorReads = 3
    /\ Len(file.rows) = 2

\* C12 as stated: the number of sensor samples of a frequency point equals
\* the number of accepted repetitions.
C12_SensorPerAccepted ==
    pc \in {"measure", "registro_media"} => sensorReads = i

\* the value of the n-th reading of channel ch in a trace
NthRead(tr, ch, n) ==
    LET j == CHOOSE j \in DOMAIN tr :
                /\ tr[j].op = "read" /\ tr[j].a = ch
                /\ Cardinality({k \in 1..j : tr[k].op = "read" /\ tr[k].a = ch}) = n
    IN  ParseReading(tr[j].c)
\* the two test amplitudes of equilibrio()
AcLow == FMul(Rat(999, 1000), Rat(config.voltage, 1))
AcHigh == FMul(Rat(1001, 1000), Rat(config.voltage, 1))
\* v lies between the two test amplitudes
WithinTest(v) ==
    \/ FLe(AcLow, v) /\ FLe(v, AcHigh)
    \/ FLe(AcHigh, v) /\ FLe(v, AcLow)

\* C13 (as the code has it): equilibrio() never extrapolates: when the target
\* reading xi is above the second bracketing reading the result is the
\* 1.001 x nominal amplitude, when it is below the first one the result is
\* the 0.999 x nominal amplitude, and the result always lies between the two
\* test amplitudes.
C13_InterpClamps ==
    pc = "h_eq_returned" =>
        LET xi == NthRead(lastTrace, "dut", 1)
            xp0 == NthRead(lastTrace, "dut", 2)
            xp1 == NthRead(lastTrace, "dut", 3)
        IN  /\ FGt(xi, xp1) => vac_atual = AcHigh
            /\ (FLt(xi, xp0) /\ ~FGt(xi, xp1)) => vac_atual = AcLow
            /\ WithinTest(vac_atual)

\* C13 witness: the target reading was above both bracketing readings and
\* the 1.001 x nominal amplitude was returned
C13_Witness ==
    /\ pc = "h_eq_returned"
    /\ FGt(NthRead(lastTrace, "dut", 1), NthRead(lastTrace, "dut", 3))
    /\ FLt(NthRead(lastTrace, "dut", 2), NthRead(lastTrace, "dut", 3))
    /\ vac_atual = AcHigh

\* C13 as stated: with xi outside the interval of the two bracketing
\* readings the result is the linear extrapolation and lies outside
\* [0.999 x nominal, 1.001 x nominal].
C13_Extrapolates ==
    pc = "h_eq_returned" =>
        LET xi == NthRead(lastTrace, "dut", 1)
            xp0 == NthRead(lastTrace, "dut", 2)
            xp1 == NthRead(lastTrace, "dut", 3)
        IN  ((FLt(xi, xp0) /\ FLt(xi, xp1)) \/ (FGt(xi, xp0) /\ FGt(xi, xp1))) =>
                /\ vac_atual = InterpExtrapola(xi, <<xp0, xp1>>, <<AcLow, AcHigh>>)
                /\ ~WithinTest(vac_atual)

\* C14: main() has run equilibrio() or measure() for a frequency point only
\* if the mean coefficients nX and nY that n_measure() returned are finite.
C14_NonFiniteCoefficientFaults ==
    pc \in {"registro_frequencia", "measure", "acdc_calc", "registro_media"} =>
        /\ IsFinite(n_array.nX)
        /\ IsFinite(n_array.nY)

\* C15: a repetition that is made with a non-finite DC voltage (the correction
\* the repetition before it produced) ends in the DC safety fault: the
\* sampling loop never goes on, or completes, after such a repetition.
C15_NonFiniteReachesFault ==
    (pc \in {"measure", "registro_media"} /\ total > 0) =>
        IsFinite(lastCall.calc_vdc)

C17_CarryChain ==
    [][MeasureDone =>
          IF total = 0
          THEN ciclo_ac' = <<>>
          ELSE /\ lastRep.outcome \in {"accepted", "discarded"}
               /\ ciclo_ac' = <<readings.std_readings[5], readings.dut_readings[5]>>
               /\ readings'.std_readings[1] = readings.std_readings[5]
               /\ readings'.dut_readings[1] = readings.dut_readings[5]]_vars

\* C17 witness: the third measure() call of a frequency point, made after a
\* discarded and then an accepted repetition, returned the carried pair
C17_Witness ==
    /\ pc = "acdc_calc"
    /\ total = 3
    /\ i = 1
    /\ lastRep.outcome = "accepted"
    /\ ciclo_ac = <<20, 22>>
    /\ readings.dut_readings[1] = 22

\* C18: when the sampling loop of a frequency point is entered, the DC
\* voltage is the nominal one, the accepted-count is 0 and the accepted
\* differences and the rows of the section are empty; the first measure()
\* call of the frequency point is handed no pair, samples all 5 phases and
\* sends the nominal DC voltage.
C18_ResetPerFrequency ==
    /\ [][(pc = "registro_frequencia" /\ pc' \in {"measure", "registro_media"}) =>
            /\ vdc_atual' = Rat(config.voltage, 1)
            /\ i' = 0
            /\ diff_acdc' = <<>>
            /\ Delta' = <<>>
            /\ file'.rows = <<>>
            /\ first_measure']_vars
    /\ [][(MeasureDone /\ total = 0) =>
            /\ i = 0
            /\ diff_acdc = <<>>
            /\ ciclo_ac' = <<>>
            /\ Routings(lastTrace') = 5
            /\ Leituras(lastTrace', "std") = 5
            /\ Leituras(lastTrace', "dut") = 5
            /\ DcSent(lastTrace') = {Fmt3(Rat(config.voltage, 1))}]_vars

\* C18 witness: the first measure() call of the second frequency point, the
\* first one having ended with a corrected DC voltage other than nominal
C18_Witness ==
    /\ pc = "acdc_calc"
    /\ freqIdx = 2
    /\ total = 1
    /\ ciclo_ac = <<>>
    /\ lastRep.outcome = "accepted"
    /\ IsFinite(lastRep.adj_dc)
    /\ lastRep.adj_dc # vdc_nominal
    /\ lastCall.measure_vdc = vdc_nominal

\* the position of the n-th reading of channel ch in a trace
ReadPos(tr, ch, n) ==
    CHOOSE j \in DOMAIN tr :
        /\ tr[j].op = "read" /\ tr[j].a = ch
        /\ Cardinality({k \in 1..j : tr[k].op = "read" /\ tr[k].a = ch}) = n
\* the positions of the DC level commands of a trace
DcPos(tr) == {j \in DOMAIN tr : tr[j].op = "src" /\ tr[j].a = "SOUR1:VOLT"}

SrcPos(tr) == {j \in DOMAIN tr : tr[j].op = "src"}
\* the positions of the routings to mode of a trace
RoutePos(tr, mode) == {j \in DOMAIN tr : tr[j] = Route(mode)}

C21_AppliedDcRecorded ==
    [][RepDone =>
          /\ DcSent(lastTrace) = {Fmt3(lastCall.measure_vdc)}
          /\ lastCall'.calc_vdc = lastCall.measure_vdc
          /\ lastCall'.measure_vdc = lastCall.measure_vdc
          /\ Len(file'.rows) > Len(file.rows) =>
                file'.rows[Len(file'.rows)].vdc = lastCall.measure_vdc]_vars

\* C21 witness: a second repetition, run at a corrected DC voltage, was
\* accepted and its correction differs from the voltage it was run at
C21_Witness ==
    /\ pc \in {"measure", "registro_media"}
    /\ total = 2
    /\ lastRep.outcome = "accepted"
    /\ lastCall.measure_vdc # vdc_nominal
    /\ lastCall.calc_vdc = lastCall.measure_vdc
    /\ file.rows[Len(file.rows)].vdc = lastCall.measure_vdc
    /\ vdc_atual # lastCall.measure_vdc

\* a repetition is accepted (line 655)
Aceita == pc = "acdc_calc" /\ i' = i + 1
\* main() has returned after the summary of every frequency point and the
\* shutdown
Completo ==
    /\ pc = "done"
    /\ fault = "none"
    /\ stops.completed = 1
    /\ file.summaries = Len(freq_array)
\* the readings of a repetition that is discarded and leaves the DC voltage
\* below the safety bound, from the head of the sampling loop
Rejeitaveis ==
    LET ciclo == CicloAc(first_measure, readings)
    IN  {in \in LInputs(ciclo, vdc_atual) :
            LET r == AcdcCalc(MeasureResult(ciclo, in[1], in[2]), n_array, vdc_atual)
            IN  Descartado(r.Delta) /\ ~DcPerigosa(r.adj_dc)}

\* C22: a discarded repetition leaves the accepted-count as it was and, unless
\* the DC bound is exceeded, returns to the head of the sampling loop; if
\* readings that pass the outlier test are not refused forever, a run without
\* fault ends with the summary of every frequency point recorded and the
\* shutdown completed; and at the head of the loop (positive nominal, device
\* coefficient 1) a repetition that is discarded and returns there is always
\* possible, so that nothing but the readings ends the loop.
C22_DiscardsUnbounded ==
    /\ [][(RepDone /\ Descartado(AcdcCalc(readings, n_array, vdc_atual).Delta)) =>
             /\ i' = i
             /\ i < repeticoes
             /\ file'.summaries = file.summaries
             /\ pc' \in {"measure", "except"}
             /\ pc' = "except" <=> DcPerigosa(vdc_atual')]_vars
    /\ SF_i(Aceita) => <>(fault # "none" \/ Completo)
    /\ []((pc = "measure" /\ config.voltage > 0 /\ n_array.nY = One) =>
             Rejeitaveis # {})

\* C22 witness: at the head of the loop after more discarded repetitions
\* than the target, none accepted, no fault
C22_Witness ==
    /\ pc = "measure"
    /\ total = MaxTotal
    /\ repeticoes < MaxTotal
    /\ i = 0
    /\ lastRep.outcome = "discarded"
    /\ fault = "none"
    /\ vdc_atual \in VdcGrid
    /\ Rejeitaveis # {}

\* other readings of the standard, and other coefficients of the standard,
\* that acdc_calc() could have been given
OutrosStd == Prod([j \in 1..5 |-> {19, 21}]) \cup {<<20, 0, 20, 0, 20>>}
OutrosNX == {Rat(1, 1), Rat(3, 1), Zero, NaN}

\* C23: with the applied DC voltage, the device coefficient and the mean DC
\* reading of the device all positive, the corrected DC voltage returned by
\* acdc_calc() is above, below or equal to the applied one as the mean AC
\* reading of the device (phases 0, 2, 4) is above, below or equal to its
\* mean DC reading (phases 1, 3); and the corrected voltage and Delta are
\* the same for any readings and coefficient of the standard.
C23_CorrectionDirection ==
    (pc = "h_acdc_calc" /\ total > 0) =>
        LET y == [j \in 1..5 |-> ParseReading(readings.dut_readings[j])]
            Yac == FMean(<<y[1], y[3], y[5]>>)
            Ydc == FMean(<<y[2], y[4]>>)
            adj == lastRep.adj_dc
        IN  /\ (FGt(vdc_atual, Zero) /\ FGt(n_array.nY, Zero) /\ FGt(Ydc, Zero)) =>
                  /\ FGt(Yac, Ydc) => FGt(adj, vdc_atual)
                  /\ FLt(Yac, Ydc) => FLt(adj, vdc_atual)
                  /\ FEq(Yac, Ydc) => FEq(adj, vdc_atual)
            /\ \A xs \in OutrosStd : \A nx \in OutrosNX :
                  LET r == AcdcCalc([readings EXCEPT !.std_readings = xs],
                                    [n_array EXCEPT !.nX = nx], vdc_atual)
                  IN  r.adj_dc = adj /\ r.Delta = lastRep.Delta

\* C23 witness: a call with device coefficient 2 and the device reading less
\* in AC than in DC returned a corrected voltage below the applied one
C23_Witness ==
    /\ pc = "h_acdc_calc"
    /\ total > 0
    /\ n_array.nY = Rat(2, 1)
    /\ readings.dut_readings = <<19, 20, 19, 20, 19>>
    /\ FLt(lastRep.adj_dc, vdc_atual)
    /\ FGt(lastRep.adj_dc, Zero)

\* the values of the last command cmd sent to the source before position r
\* of a trace (none if it was not sent)
EmVigor(tr, cmd, r) ==
    LET before == {j \in 1..(r - 1) : tr[j].op = "src" /\ tr[j].a = cmd}
    IN  {tr[j].v : j \in {k \in before : \A q \in before : q <= k}}
\* the routings in force at position r of a trace
Rota(tr, r) ==
    LET before == {j \in 1..(r - 1) : tr[j].op = "sw"}
    IN  {tr[j].a : j \in {k \in before : \A q \in before : q <= k}}
\* the waits between the last routing before position r and position r
Esperas(tr, r) ==
    LET before == {j \in 1..(r - 1) : tr[j].op = "sw"}
        s == CHOOSE j \in before : \A q \in before : q <= j
    IN  [j \in 1..Cardinality({k \in (s + 1)..(r - 1) : tr[k].op = "espera"}) |->
            LET p == CHOOSE k \in (s + 1)..(r - 1) :
                        /\ tr[k].op = "espera"
                        /\ Cardinality({q \in (s + 1)..k : tr[q].op = "espera"}) = j
            IN  tr[p].c]

\* C24 (as the code has it): equilibrio() takes exactly three readings of the
\* device and none of the standard.  The first, the target xi, is taken with
\* the switch routed to DC at the nominal DC level, after two waits of half
\* wait_time, the AC amplitude having been set to 0.999 x nominal between
\* the two; the second with the switch routed to AC at 0.999 x nominal and
\* the third routed to AC at 1.001 x nominal, each after a wait of wait_time;
\* the second and third readings, in that order, are the sample points
\* paired with [0.999 x nominal, 1.001 x nominal].
C24_ThreeReadings ==
    pc = "h_eq_returned" =>
        LET tr == lastTrace
            r1 == ReadPos(tr, "dut", 1)
            r2 == ReadPos(tr, "dut", 2)
            r3 == ReadPos(tr, "dut", 3)
        IN  /\ Leituras(tr, "dut") = 3
            /\ Leituras(tr, "std") = 0
            /\ Rota(tr, r1) = {"dc"}
            /\ EmVigor(tr, "SOUR1:VOLT", r1) = {Fmt3(Rat(config.voltage, 1))}
            /\ EmVigor(tr, "SOUR2:VOLT", r1) = {Fmt3(AcLow)}
            /\ Esperas(tr, r1) = <<WaitTime \div 2, WaitTime \div 2>>
            /\ Rota(tr, r2) = {"ac"}
            /\ EmVigor(tr, "SOUR2:VOLT", r2) = {Fmt3(AcLow)}
            /\ Esperas(tr, r2) = <<WaitTime>>
            /\ Rota(tr, r3) = {"ac"}
            /\ EmVigor(tr, "SOUR2:VOLT", r3) = {Fmt3(AcHigh)}
            /\ Esperas(tr, r3) = <<WaitTime>>
            /\ vac_atual = Interp(NthRead(tr, "dut", 1),
                                  <<NthRead(tr, "dut", 2), NthRead(tr, "dut", 3)>>,
                                  <<AcLow, AcHigh>>)

\* C24 witness: equilibrio() returned with three different readings, the
\* target between the two sample points, and a result strictly between the
\* two test amplitudes
C24_Witness ==
    /\ pc = "h_eq_returned"
    /\ Leituras(lastTrace, "dut") = 3
    /\ FLt(NthRead(lastTrace, "dut", 2), NthRead(lastTrace, "dut", 1))
    /\ FLt(NthRead(lastTrace, "dut", 1), NthRead(lastTrace, "dut", 3))
    /\ vac_atual \notin {AcLow, AcHigh}
    /\ WithinTest(vac_atual)

\* C24 as stated: the first of the three readings is taken while the AC
\* amplitude is at nominal, each reading after a settling wait of wait_time.
C24_FirstAtNominalAc ==
    pc = "h_eq_returned" =>
        LET tr == lastTrace
            r1 == ReadPos(tr, "dut", 1)
        IN  /\ Leituras(tr, "dut") = 3
            /\ EmVigor(tr, "SOUR2:VOLT", r1) \subseteq {Fmt3(Rat(config.voltage, 1))}
            /\ EmVigor(tr, "SOUR2:VOLT", ReadPos(tr, "dut", 2)) = {Fmt3(AcLow)}
            /\ EmVigor(tr, "SOUR2:VOLT", ReadPos(tr, "dut", 3)) = {Fmt3(AcHigh)}

\* C25: the detector readings being finite, the AC voltage equilibrio()
\* returned lies between 0.999 x nominal and 1.001 x nominal, it is the AC
\* voltage handed to every measure() call of the frequency point, and with a
\* positive nominal the AC safety fault of line 626 never occurs.
C25_AcWithinTestLevels ==
    /\ pc \in {"registro_frequencia", "measure", "acdc_calc", "registro_media"} =>
          WithinTest(vac_atual)
    /\ (pc \in {"measure", "acdc_calc", "registro_media"} /\ total > 0) =>
          /\ lastCall.measure_vac = vac_atual
          /\ WithinTest(lastCall.measure_vac)
    /\ (pc = "acdc_calc") =>
          \A j \in DOMAIN lastTrace :
              (lastTrace[j].op = "src" /\ lastTrace[j].a = "SOUR2:VOLT") =>
                  lastTrace[j].v = Fmt3(vac_atual)
    /\ config.voltage > 0 => fault # "ac_high"

\* C25 witness: positive nominal, the target reading above both sample
\* points, equilibrio() returned 1.001 x nominal and measure() ran with it
C25_Witness ==
    /\ pc = "acdc_calc"
    /\ config.voltage > 0
    /\ vac_atual = AcHigh
    /\ lastCall.measure_vac = AcHigh
    /\ fault = "none"

====
